---- MODULE Spec2Model ----
(***************************************************************************)
(* Client-side form rules of the Travel Claim, Travel Authorization and    *)
(* Travel Adjustment doctypes.                                             *)
(*                                                                         *)
(* Value encoding.  A date field holds an ISO "YYYY-MM-DD" string, which   *)
(* JavaScript compares lexicographically; the day numbers 1..MaxDate stand *)
(* for such strings in calendar order, 0 stands for the empty string ""    *)
(* (which sorts before every date string) and Null stands for null or      *)
(* undefined.                                                              *)
(***************************************************************************)
EXTENDS Integers, Sequences, FiniteSets, TLC

MaxDate == 2
NumRows == 1

Null == -1
Empty == 0

Dates == 1..MaxDate
DateValues == {Null, Empty} \cup Dates
Rows == 1..NumRows
ChildTypes == {"Travel Authorization Item", "Travel Adjustment Item"}

MaxAmount == 12
MaxFirings == 3
NumClaimRows == 1

ClaimRows == 1..NumClaimRows
\* Values the user enters in mileage_rate, distance and amount; Null is a
\* cleared field.
MileageRates == {Null, 0, 1, 2}
Distances == {Null, 0, 3}
Amounts == {Null, 0, 1}

MaxCalls == 2

\* Exchange rates are held in tenths: 10 stands for 1.0 and 835 for 83.5.
One == 10
RateMessages == {Null, 10, 835}

Currencies == {"INR", "USD", "EUR"}
Employees == {"EMP-1", "EMP-2"}
Companies == {"Alpha", "Beta"}
ParentTypes == {"Travel Claim", "Travel Authorization"}
DerivedTypes == {"Travel Advance", "Travel Claim", "Travel Adjustment"}

\* Site data the lookups answer from: the currency of each employee's salary
\* structure ("" when there is none), each company's default currency and
\* the default company of the session.
SalaryStructureCurrency == [e \in Employees |-> IF e = "EMP-1" THEN "USD" ELSE ""]
CompanyDefaultCurrency == [c \in Companies |-> IF c = "Alpha" THEN "INR" ELSE "USD"]
DefaultCompany == "Alpha"
ReportsTo == [e \in Employees |-> IF e = "EMP-1" THEN "MGR-1" ELSE ""]
Approver == [e \in Employees |-> IF e = "EMP-1" THEN "APR-1" ELSE ""]

VARIABLES
    cdt,        \* child doctype of the open form's item table
    items,      \* locals[cdt][cdn]: the rows of the item table
    msgs,       \* number of msgprint dialogs raised by the last user edit
    writes,     \* number of values the rules stored during the last user edit
    edit,       \* the last user edit: field, row and entered value
    claim_items,\* the Travel Claim Item rows of an open Travel Claim
    streak,     \* the run of calculate firings on one row with unchanged inputs
    doctype,    \* doctype of the open parent form
    doc,        \* frm.doc: the parent document's fields
    df,         \* display properties of the exchange_rate field
    sys_currency,   \* frappe.boot.sysdefaults.currency
    salary_calls,   \* get_value("Salary Structure") requests in flight
    rate_calls,     \* get_exchange_rate requests in flight
    reports_to_calls,   \* employees with a get_reports_to request in flight
    approver_calls,     \* employees with a get_approver request in flight
    rule_ran,       \* the currency handler has run on the document
    last,           \* the last event handled on the parent form
    docstatus,      \* frm.doc.docstatus of the Travel Authorization
    can_create,     \* frappe.model.can_create per doctype, for the session's user
    claim_exists,   \* the server holds a travel claim for the authorization
    has_claim_calls,\* has_travel_claim requests in flight, each with its answer
    buttons,        \* custom buttons of the form, each with the answer it was added on
    created         \* documents created from the form

dateVars == <<cdt, items, msgs, writes, edit>>
mileageVars == <<claim_items, streak>>
currencyVars == <<doctype, doc, df, sys_currency, salary_calls, rate_calls,
                  reports_to_calls, approver_calls, rule_ran, last>>
refreshVars == <<docstatus, can_create, claim_exists, has_claim_calls, buttons, created>>
vars == <<cdt, items, msgs, writes, edit, claim_items, streak,
          doctype, doc, df, sys_currency, salary_calls, rate_calls,
          reports_to_calls, approver_calls, rule_ran, last,
          docstatus, can_create, claim_exists, has_claim_calls, buttons, created>>

\* JavaScript truthiness of a date field value.
Truthy(v) == v # Null /\ v # Empty

\* JsLess with the comparison taken as a <= b.
JsLessOrEqual(a, b) == a # Null /\ b # Null /\ a <= b

\* JavaScript a < b on date field values: two strings compare
\* lexicographically; null or undefined against a date string converts the
\* string to NaN and null against "" compares 0 < 0, false either way.
JsLess(a, b) == a # Null /\ b # Null /\ a < b

\* flt handing a missing value on unconverted.
flt_unconverted(v) == v

\* flt(v): a missing or non-numeric value becomes 0.
flt(v) == IF v = Null THEN 0 ELSE v

NewClaimRow ==
    [mileage_rate |-> Null, distance |-> Null, mileage_amount |-> Null, amount |-> Null]

NoStreak == [row |-> 0, k |-> 0, a0 |-> 0]

\* calculate with amount overwritten by the mileage amount instead of added to.
calculate_overwrite(row) ==
    LET r1 == [row EXCEPT !.mileage_amount = flt(row.mileage_rate) * flt(row.distance)]
    IN [r1 EXCEPT !.amount = flt(r1.mileage_amount)]

\* calculate handler of Travel Claim Item: the first set_value stores
\* mileage_amount in the row before the second one reads it.
calculate(row) ==
    LET r1 == [row EXCEPT !.mileage_amount = flt(row.mileage_rate) * flt(row.distance)]
    IN [r1 EXCEPT !.amount = flt(r1.mileage_amount) + flt(r1.amount)]

\* mileage_rate handler of Travel Claim Item.
mileage_rate(row) == calculate(row)

\* distance handler of Travel Claim Item.
distance(row) == calculate(row)

NewRow == [from_date |-> Null, to_date |-> Null, halt |-> FALSE]

RECURSIVE to_date(_, _)

\* frappe.model.set_value(cdt, cdn, "to_date", value): a changed value is
\* stored and the to_date handler of the child doctype runs on the row.
set_to_date(t, c, value) ==
    IF c.row.to_date = value THEN c
    ELSE to_date(t, [c EXCEPT !.row.to_date = value, !.writes = @ + 1])

\* authorization_to_date clamping without the msgprint.
authorization_to_date_silent(t, c) ==
    IF Truthy(c.row.from_date)
    THEN IF JsLess(c.row.to_date, c.row.from_date)
         THEN set_to_date(t, c, c.row.from_date)
         ELSE c
    ELSE c

\* to_date handler of Travel Authorization Item: two nested tests, a plain
\* msgprint, then the clamp.
authorization_to_date(t, c) ==
    IF Truthy(c.row.from_date)
    THEN IF JsLess(c.row.to_date, c.row.from_date)
         THEN set_to_date(t, [c EXCEPT !.msgs = @ + 1], c.row.from_date)
         ELSE c
    ELSE c

\* adjustment_to_date repairing the range by moving from_date instead.
adjustment_to_date_moves_from_date(t, c) ==
    IF Truthy(c.row.from_date) /\ JsLess(c.row.to_date, c.row.from_date)
    THEN [c EXCEPT !.msgs = @ + 1, !.row.from_date = c.row.to_date]
    ELSE c

\* to_date handler of Travel Adjustment Item: one conjoined test, a titled
\* msgprint, then the clamp.
adjustment_to_date(t, c) ==
    IF Truthy(c.row.from_date) /\ JsLess(c.row.to_date, c.row.from_date)
    THEN set_to_date(t, [c EXCEPT !.msgs = @ + 1], c.row.from_date)
    ELSE c

\* The to_date handler registered for child doctype t.
to_date(t, c) ==
    IF t = "Travel Authorization Item"
    THEN authorization_to_date(t, c)
    ELSE adjustment_to_date(t, c)

\* authorization_from_date emptying to_date instead of copying from_date.
authorization_from_date_clears(t, c) ==
    IF ~c.row.halt /\ c.row.from_date # c.row.to_date
    THEN IF Truthy(c.row.from_date)
         THEN set_to_date(t, c, Empty)
         ELSE c
    ELSE c

\* authorization_from_date filling to_date only while it is unset.
authorization_from_date_if_unset(t, c) ==
    IF ~c.row.halt /\ ~Truthy(c.row.to_date)
    THEN IF Truthy(c.row.from_date)
         THEN set_to_date(t, c, c.row.from_date)
         ELSE c
    ELSE c

\* authorization_from_date without the halt test.
authorization_from_date_ignores_halt(t, c) ==
    IF c.row.from_date # c.row.to_date
    THEN IF Truthy(c.row.from_date)
         THEN set_to_date(t, c, c.row.from_date)
         ELSE c
    ELSE c

\* from_date handler of Travel Authorization Item.
authorization_from_date(t, c) ==
    IF ~c.row.halt /\ c.row.from_date # c.row.to_date
    THEN IF Truthy(c.row.from_date)
         THEN set_to_date(t, c, c.row.from_date)
         ELSE c
    ELSE c

\* adjustment_from_date filling to_date only when it is later than from_date.
adjustment_from_date_if_later(t, c) ==
    IF Truthy(c.row.from_date) /\ ~c.row.halt /\ JsLess(c.row.from_date, c.row.to_date)
    THEN set_to_date(t, c, c.row.from_date)
    ELSE c

\* from_date handler of Travel Adjustment Item.
adjustment_from_date(t, c) ==
    IF Truthy(c.row.from_date) /\ ~c.row.halt /\ c.row.from_date # c.row.to_date
    THEN set_to_date(t, c, c.row.from_date)
    ELSE c

from_date(t, c) ==
    IF t = "Travel Authorization Item"
    THEN authorization_from_date(t, c)
    ELSE adjustment_from_date(t, c)

\* erpnext.get_currency(company), the ERPNext helper the handlers call: the
\* company's default currency, or frappe.boot.sysdefaults.currency when no
\* company is given.
get_currency(company) ==
    IF company # "" THEN CompanyDefaultCurrency[company] ELSE sys_currency

\* The company currency as the currency handler resolves it.
company_currency(d) ==
    IF d.company = ""
    THEN get_currency(DefaultCompany)
    ELSE get_currency(d.company)

\* The description the set_exchange_rate callback composes.
rate_description(from, to) == "1 " \o from \o " = [?] " \o to

\* A form state: the document, the exchange_rate field properties and the
\* exchange-rate requests in flight.
Form(d, p, calls, ran) == [doc |-> d, df |-> p, rate_calls |-> calls, rule_ran |-> ran]

\* set_exchange_rate: the request leaves with the two currencies; the
\* callback runs when the response is delivered.
set_exchange_rate(f, from_currency, to_currency) ==
    [f EXCEPT !.rate_calls =
        Append(@, [from |-> from_currency, to |-> to_currency, latest |-> TRUE])]

\* currency handler of Travel Claim and Travel Authorization.
currency(f) ==
    IF f.doc.currency # ""
    THEN LET from_currency == f.doc.currency
             cc == company_currency(f.doc)
             g == [f EXCEPT !.rule_ran = TRUE]
         IN IF from_currency # cc
            THEN set_exchange_rate(g, from_currency, cc)
            ELSE [g EXCEPT !.doc.exchange_rate = One,
                           !.df = [hidden |-> 1, description |-> ""]]
    ELSE f

\* set_currency running the currency handler even for an unchanged value.
set_currency_always(f, value) ==
    currency([f EXCEPT !.doc.currency = value,
                       !.rate_calls = [i \in DOMAIN @ |-> [@[i] EXCEPT !.latest = FALSE]]])

\* frm.set_value("currency", value): a changed value is stored, supersedes
\* the exchange-rate requests in flight and runs the currency handler.
set_currency(f, value) ==
    IF f.doc.currency = value THEN f
    ELSE currency([f EXCEPT !.doc.currency = value,
                            !.rate_calls = [i \in DOMAIN @ |-> [@[i] EXCEPT !.latest = FALSE]]])

\* Callback of get_employee_currency with r.currency = c.
employee_currency_callback(f, c) ==
    IF c # ""
    THEN set_currency(f, c)
    ELSE set_currency(f, get_currency(f.doc.company))

\* Callback of set_exchange_rate for the request q with r.message = m.
exchange_rate_callback(f, q, m) ==
    [f EXCEPT !.doc.exchange_rate = flt(m),
              !.df = [hidden |-> 0,
                      description |-> rate_description(f.doc.currency, q.to)]]

Remove(seq, i) == [j \in 1..(Len(seq) - 1) |-> IF j < i THEN seq[j] ELSE seq[j + 1]]

NoEvent ==
    [op |-> "none", msg |-> Null, code |-> "", from |-> "", to |-> "", latest |-> FALSE]

NewDoc(company) ==
    [employee |-> "", company |-> company, currency |-> "", exchange_rate |-> Null,
     reports_to |-> "", approver |-> ""]



\* refresh_callback without the docstatus test.
refresh_callback_any_status(m, status, allowed) ==
    IF ~m
    THEN {[doctype |-> k, has_travel_claim |-> m] : k \in {t \in DerivedTypes : allowed[t]}}
    ELSE {}

\* Callback of has_travel_claim in refresh with r.message.has_travel_claim = m:
\* the buttons the callback adds to the form.
refresh_callback(m, status, allowed) ==
    IF ~m
    THEN {[doctype |-> k, has_travel_claim |-> m] :
            k \in {t \in DerivedTypes : status = 1 /\ allowed[t]}}
    ELSE {}






NoEdit == [field |-> "none", row |-> 0, value |-> Null]

NewDf == [hidden |-> 0, description |-> ""]

\* A new row is open in the item table of a Travel Authorization or of a
\* Travel Adjustment; nothing else is on screen.
DateInit ==
    /\ cdt \in ChildTypes
    /\ items = [r \in Rows |-> NewRow]
    /\ msgs = 0
    /\ writes = 0
    /\ edit = NoEdit
    /\ claim_items = [r \in ClaimRows |-> NewClaimRow]
    /\ streak = NoStreak
    /\ doctype = "none"
    /\ doc = NewDoc("")
    /\ sys_currency = "INR"
    /\ df = NewDf
    /\ salary_calls = <<>>
    /\ rate_calls = <<>>
    /\ reports_to_calls = {}
    /\ approver_calls = {}
    /\ rule_ran = FALSE
    /\ last = NoEvent
    /\ docstatus = 0
    /\ can_create = [k \in DerivedTypes |-> FALSE]
    /\ claim_exists = FALSE
    /\ has_claim_calls = <<>>
    /\ buttons = {}
    /\ created = {}

\* A Travel Claim is open with new item rows.
MileageInit ==
    /\ cdt = "none"
    /\ items = [r \in Rows |-> NewRow]
    /\ msgs = 0
    /\ writes = 0
    /\ edit = NoEdit
    /\ claim_items = [r \in ClaimRows |-> NewClaimRow]
    /\ streak = NoStreak
    /\ doctype = "none"
    /\ doc = NewDoc("")
    /\ sys_currency = "INR"
    /\ df = NewDf
    /\ salary_calls = <<>>
    /\ rate_calls = <<>>
    /\ reports_to_calls = {}
    /\ approver_calls = {}
    /\ rule_ran = FALSE
    /\ last = NoEvent
    /\ docstatus = 0
    /\ can_create = [k \in DerivedTypes |-> FALSE]
    /\ claim_exists = FALSE
    /\ has_claim_calls = <<>>
    /\ buttons = {}
    /\ created = {}

\* A new Travel Claim or Travel Authorization is open; its company is unset
\* or one of the companies.
CurrencyInit ==
    /\ cdt = "none"
    /\ items = [r \in Rows |-> NewRow]
    /\ msgs = 0
    /\ writes = 0
    /\ edit = NoEdit
    /\ claim_items = [r \in ClaimRows |-> NewClaimRow]
    /\ streak = NoStreak
    /\ doctype \in ParentTypes
    /\ \/ doc = NewDoc("") /\ sys_currency \in {"INR", "USD"}
       \/ \E c \in Companies : doc = NewDoc(c) /\ sys_currency = "INR"
    /\ df = NewDf
    /\ salary_calls = <<>>
    /\ rate_calls = <<>>
    /\ reports_to_calls = {}
    /\ approver_calls = {}
    /\ rule_ran = FALSE
    /\ last = NoEvent
    /\ docstatus = 0
    /\ can_create = [k \in DerivedTypes |-> FALSE]
    /\ claim_exists = FALSE
    /\ has_claim_calls = <<>>
    /\ buttons = {}
    /\ created = {}

\* A new Travel Authorization is open.
AuthorizationInit ==
    /\ cdt = "none"
    /\ items = [r \in Rows |-> NewRow]
    /\ msgs = 0
    /\ writes = 0
    /\ edit = NoEdit
    /\ claim_items = [r \in ClaimRows |-> NewClaimRow]
    /\ streak = NoStreak
    /\ doctype \in {"Travel Authorization"}
    /\ \/ doc = NewDoc("") /\ sys_currency \in {"INR", "USD"}
       \/ \E c \in Companies : doc = NewDoc(c) /\ sys_currency = "INR"
    /\ df = NewDf
    /\ salary_calls = <<>>
    /\ rate_calls = <<>>
    /\ reports_to_calls = {}
    /\ approver_calls = {}
    /\ rule_ran = FALSE
    /\ last = NoEvent
    /\ docstatus = 0
    /\ can_create = [k \in DerivedTypes |-> FALSE]
    /\ claim_exists = FALSE
    /\ has_claim_calls = <<>>
    /\ buttons = {}
    /\ created = {}

\* A draft Travel Authorization is open; the user may or may not create each
\* of the derived doctypes.
RefreshInit ==
    /\ cdt = "none"
    /\ items = [r \in Rows |-> NewRow]
    /\ msgs = 0
    /\ writes = 0
    /\ edit = NoEdit
    /\ claim_items = [r \in ClaimRows |-> NewClaimRow]
    /\ streak = NoStreak
    /\ doctype = "Travel Authorization"
    /\ doc = NewDoc("")
    /\ sys_currency = "INR"
    /\ df = NewDf
    /\ salary_calls = <<>>
    /\ rate_calls = <<>>
    /\ reports_to_calls = {}
    /\ approver_calls = {}
    /\ rule_ran = FALSE
    /\ last = NoEvent
    /\ docstatus = 0
    /\ can_create \in [DerivedTypes -> BOOLEAN]
    /\ claim_exists = FALSE
    /\ has_claim_calls = <<>>
    /\ buttons = {}
    /\ created = {}

\* The user changes from_date of a row in the grid.
EditFromDate(r, v) ==
    /\ v # items[r].from_date
    /\ LET c == from_date(cdt, [row |-> [items[r] EXCEPT !.from_date = v], msgs |-> 0, writes |-> 0])
       IN /\ items' = [items EXCEPT ![r] = c.row]
          /\ msgs' = c.msgs
          /\ writes' = c.writes
    /\ edit' = [field |-> "from_date", row |-> r, value |-> v]
    /\ UNCHANGED <<cdt, mileageVars, currencyVars, refreshVars>>

\* The user changes to_date of a row in the grid.
EditToDate(r, v) ==
    /\ v # items[r].to_date
    /\ LET c == to_date(cdt, [row |-> [items[r] EXCEPT !.to_date = v], msgs |-> 0, writes |-> 0])
       IN /\ items' = [items EXCEPT ![r] = c.row]
          /\ msgs' = c.msgs
          /\ writes' = c.writes
    /\ edit' = [field |-> "to_date", row |-> r, value |-> v]
    /\ UNCHANGED <<cdt, mileageVars, currencyVars, refreshVars>>

\* The user ticks or unticks halt; no handler is registered for the field.
EditHalt(r) ==
    /\ items' = [items EXCEPT ![r].halt = ~@]
    /\ msgs' = 0
    /\ writes' = 0
    /\ edit' = [field |-> "halt", row |-> r, value |-> Null]
    /\ UNCHANGED <<cdt, mileageVars, currencyVars, refreshVars>>

DateNext ==
    \/ \E r \in Rows, v \in DateValues : EditFromDate(r, v)
    \/ \E r \in Rows, v \in DateValues : EditToDate(r, v)
    \/ \E r \in Rows : EditHalt(r)

\* The user changes mileage_rate of a claim row.
EditMileageRate(r, v) ==
    /\ v # claim_items[r].mileage_rate
    /\ LET row == mileage_rate([claim_items[r] EXCEPT !.mileage_rate = v])
       IN /\ row.amount <= MaxAmount
          /\ claim_items' = [claim_items EXCEPT ![r] = row]
    /\ streak' = [row |-> r, k |-> 1, a0 |-> flt(claim_items[r].amount)]
    /\ UNCHANGED <<dateVars, currencyVars, refreshVars>>

\* The user changes distance of a claim row.
EditDistance(r, v) ==
    /\ v # claim_items[r].distance
    /\ LET row == distance([claim_items[r] EXCEPT !.distance = v])
       IN /\ row.amount <= MaxAmount
          /\ claim_items' = [claim_items EXCEPT ![r] = row]
    /\ streak' = [row |-> r, k |-> 1, a0 |-> flt(claim_items[r].amount)]
    /\ UNCHANGED <<dateVars, currencyVars, refreshVars>>

\* The user changes amount of a claim row; no handler is registered.
EditAmount(r, v) ==
    /\ v # claim_items[r].amount
    /\ claim_items' = [claim_items EXCEPT ![r].amount = v]
    /\ streak' = NoStreak
    /\ UNCHANGED <<dateVars, currencyVars, refreshVars>>

\* The calculate event fires again on a row whose inputs did not change.
FireCalculate(r) ==
    /\ streak.row = r => streak.k < MaxFirings
    /\ LET row == calculate(claim_items[r])
       IN /\ row.amount <= MaxAmount
          /\ claim_items' = [claim_items EXCEPT ![r] = row]
    /\ streak' = IF streak.row = r
                 THEN [streak EXCEPT !.k = @ + 1]
                 ELSE [row |-> r, k |-> 1, a0 |-> flt(claim_items[r].amount)]
    /\ UNCHANGED <<dateVars, currencyVars, refreshVars>>

MileageNext ==
    \/ \E r \in ClaimRows, v \in MileageRates : EditMileageRate(r, v)
    \/ \E r \in ClaimRows, v \in Distances : EditDistance(r, v)
    \/ \E r \in ClaimRows, v \in Amounts : EditAmount(r, v)
    \/ \E r \in ClaimRows : FireCalculate(r)

MileageSpec == MileageInit /\ [][MileageNext]_vars

Apply(f) ==
    /\ doc' = f.doc
    /\ df' = f.df
    /\ rate_calls' = f.rate_calls
    /\ rule_ran' = f.rule_ran

\* get_employee_currency: the lookup leaves with the document's employee.
get_employee_currency(calls, d) == Append(calls, d.employee)

\* set_reports_to and set_approver of Travel Authorization: the request
\* leaves with the document's employee.  Requests for the same employee get
\* the same answer and their callbacks store the same value, so one entry
\* stands for all of them.
set_reports_to(calls, d) == IF d.employee # "" THEN calls \cup {d.employee} ELSE calls

set_approver(calls, d) == IF d.employee # "" THEN calls \cup {d.employee} ELSE calls

\* The user changes the employee of the document: employee handler of
\* Travel Claim and of Travel Authorization.
EditEmployee(v) ==
    /\ v # doc.employee
    /\ LET d == [doc EXCEPT !.employee = v]
       IN /\ doc' = d
          /\ IF d.employee # ""
             THEN /\ Len(salary_calls) < MaxCalls
                  /\ salary_calls' = get_employee_currency(salary_calls, d)
                  /\ IF doctype = "Travel Authorization"
                     THEN /\ reports_to_calls' = set_reports_to(reports_to_calls, d)
                          /\ approver_calls' = set_approver(approver_calls, d)
                     ELSE UNCHANGED <<reports_to_calls, approver_calls>>
             ELSE UNCHANGED <<salary_calls, reports_to_calls, approver_calls>>
    /\ last' = [NoEvent EXCEPT !.op = "employee"]
    /\ UNCHANGED <<doctype, df, sys_currency, rate_calls, rule_ran, dateVars, mileageVars, refreshVars>>

\* The response to a get_reports_to request is delivered.
ReportsToResponse(e) ==
    /\ e \in reports_to_calls
    /\ reports_to_calls' = reports_to_calls \ {e}
    /\ doc' = IF ReportsTo[e] # "" THEN [doc EXCEPT !.reports_to = ReportsTo[e]] ELSE doc
    /\ last' = [NoEvent EXCEPT !.op = "reports_to_response"]
    /\ UNCHANGED <<doctype, df, sys_currency, salary_calls, rate_calls, approver_calls,
                   rule_ran, dateVars, mileageVars, refreshVars>>

\* The response to a get_approver request is delivered.
ApproverResponse(e) ==
    /\ e \in approver_calls
    /\ approver_calls' = approver_calls \ {e}
    /\ doc' = IF Approver[e] # "" THEN [doc EXCEPT !.approver = Approver[e]] ELSE doc
    /\ last' = [NoEvent EXCEPT !.op = "approver_response"]
    /\ UNCHANGED <<doctype, df, sys_currency, salary_calls, rate_calls, reports_to_calls,
                   rule_ran, dateVars, mileageVars, refreshVars>>

\* The response to a salary-structure lookup is delivered.
SalaryResponse(i) ==
    /\ i \in DOMAIN salary_calls
    /\ LET c == SalaryStructureCurrency[salary_calls[i]]
           f == employee_currency_callback(Form(doc, df, rate_calls, rule_ran), c)
       IN /\ Len(f.rate_calls) <= MaxCalls
          /\ Apply(f)
          /\ last' = [NoEvent EXCEPT !.op = "salary_response", !.code = c]
    /\ salary_calls' = Remove(salary_calls, i)
    /\ UNCHANGED <<doctype, sys_currency, reports_to_calls, approver_calls,
                   dateVars, mileageVars, refreshVars>>

\* The user changes the currency of the document: currency handler.
EditCurrency(v) ==
    /\ v # doc.currency
    /\ LET f == set_currency(Form(doc, df, rate_calls, rule_ran), v)
       IN /\ Len(f.rate_calls) <= MaxCalls
          /\ Apply(f)
    /\ last' = [NoEvent EXCEPT !.op = "currency"]
    /\ UNCHANGED <<doctype, sys_currency, salary_calls, reports_to_calls, approver_calls,
                   dateVars, mileageVars, refreshVars>>

\* The response to an exchange-rate request is delivered with message m.
RateResponse(i, m) ==
    /\ i \in DOMAIN rate_calls
    /\ LET q == rate_calls[i]
           f == exchange_rate_callback(Form(doc, df, Remove(rate_calls, i), rule_ran), q, m)
       IN /\ Apply(f)
          /\ last' = [op |-> "rate_response", msg |-> m, code |-> "", from |-> q.from,
                      to |-> q.to, latest |-> q.latest]
    /\ UNCHANGED <<doctype, sys_currency, salary_calls, reports_to_calls, approver_calls,
                   dateVars, mileageVars, refreshVars>>

\* Employee and currency edits of a Travel Claim or Travel Authorization with
\* the salary-structure and exchange-rate answers delivered in any order.  The
\* get_reports_to and get_approver answers write only reports_to and approver;
\* AuthorizationSpec delivers them.
CurrencyNext ==
    \/ \E v \in {""} \cup Employees : EditEmployee(v)
    \/ \E i \in 1..MaxCalls : SalaryResponse(i)
    \/ \E v \in {""} \cup Currencies : EditCurrency(v)
    \/ \E i \in 1..MaxCalls, m \in RateMessages : RateResponse(i, m)

CurrencySpec == CurrencyInit /\ [][CurrencyNext]_vars

\* A Travel Authorization whose employee changes while the lookups it started
\* are answered in any order.
AuthorizationNext ==
    \/ \E v \in {""} \cup Employees : EditEmployee(v)
    \/ \E i \in 1..MaxCalls : SalaryResponse(i)
    \/ \E i \in 1..MaxCalls, m \in RateMessages : RateResponse(i, m)
    \/ \E e \in Employees : ReportsToResponse(e)
    \/ \E e \in Employees : ApproverResponse(e)

AuthorizationSpec == AuthorizationInit /\ [][AuthorizationNext]_vars

DateSpec == DateInit /\ [][DateNext]_vars

\* refresh of Travel Authorization: the form drops its custom buttons and
\* asks the server whether a travel claim exists.
refresh ==
    /\ Len(has_claim_calls) < MaxCalls
    /\ buttons' = {}
    /\ has_claim_calls' = Append(has_claim_calls, claim_exists)

\* The form is shown again or reloaded.
Refresh ==
    /\ refresh
    /\ UNCHANGED <<docstatus, can_create, claim_exists, created,
                   dateVars, mileageVars, currencyVars>>

\* The user submits the draft; the form refreshes.
Submit ==
    /\ docstatus = 0
    /\ docstatus' = 1
    /\ refresh
    /\ UNCHANGED <<can_create, claim_exists, created, dateVars, mileageVars, currencyVars>>

\* The user cancels the submitted document; the form refreshes.
Cancel ==
    /\ docstatus = 1
    /\ docstatus' = 2
    /\ refresh
    /\ UNCHANGED <<can_create, claim_exists, created, dateVars, mileageVars, currencyVars>>

\* The response to a has_travel_claim request is delivered.
HasTravelClaimResponse(i) ==
    /\ i \in DOMAIN has_claim_calls
    /\ buttons' = buttons \cup refresh_callback(has_claim_calls[i], docstatus, can_create)
    /\ has_claim_calls' = Remove(has_claim_calls, i)
    /\ UNCHANGED <<docstatus, can_create, claim_exists, created,
                   dateVars, mileageVars, currencyVars>>

\* The user clicks a Create button: make_travel_advance, make_travel_claim
\* or make_travel_adjustment creates the document from the authorization.
ClickCreate(b) ==
    /\ b \in buttons
    /\ created' = created \cup {[doctype |-> b.doctype, docstatus |-> docstatus,
                                  has_travel_claim |-> b.has_travel_claim]}
    /\ claim_exists' = (claim_exists \/ b.doctype = "Travel Claim")
    /\ UNCHANGED <<docstatus, can_create, has_claim_calls, buttons,
                   dateVars, mileageVars, currencyVars>>

RefreshNext ==
    \/ Refresh
    \/ Submit
    \/ Cancel
    \/ \E i \in 1..MaxCalls : HasTravelClaimResponse(i)
    \/ \E b \in buttons : ClickCreate(b)

RefreshSpec == RefreshInit /\ [][RefreshNext]_vars

\* Both dates of a row are set and to_date is not earlier than from_date,
\* or one of them is unset.
Ordered(row) ==
    (Truthy(row.from_date) /\ Truthy(row.to_date)) => row.to_date >= row.from_date

\* C1 as stated: in every state reachable by user edits of from_date, to_date
\* and halt, a row whose from_date and to_date are both set has
\* to_date >= from_date.
C1_AlwaysOrdered == \A r \in Rows : Ordered(items[r])

\* C1 amended: right after every user edit of to_date, and after every user
\* edit of from_date made while halt is false, the edited row has
\* to_date >= from_date whenever both dates are set.
C1_OrderedAfterEdit ==
    \A r \in Rows :
        (/\ edit.row = r
         /\ \/ edit.field = "to_date"
            \/ edit.field = "from_date" /\ ~items[r].halt)
        => Ordered(items[r])

C1_Witness ==
    \E r \in Rows :
        /\ edit.row = r /\ edit.field = "to_date"
        /\ Truthy(items[r].from_date)
        /\ items[r].to_date > items[r].from_date

\* C5: when the user changes to_date to a date D2 and from_date holds a date
\* D1 > D2, one diagnostic is raised and the row ends with to_date = D1; when
\* from_date is unset or D2 >= from_date, no diagnostic is raised and to_date
\* keeps the entered value.
C5_ClampWithDiagnostic ==
    \A r \in Rows :
        (edit.row = r /\ edit.field = "to_date" /\ edit.value \in Dates) =>
            IF Truthy(items[r].from_date) /\ edit.value < items[r].from_date
            THEN msgs = 1 /\ items[r].to_date = items[r].from_date
            ELSE msgs = 0 /\ items[r].to_date = edit.value

C5_Witness ==
    \E r \in Rows :
        /\ edit.row = r /\ edit.field = "to_date" /\ edit.value \in Dates
        /\ items[r].from_date \in Dates
        /\ edit.value < items[r].from_date
        /\ msgs = 1
        /\ items[r].to_date = items[r].from_date

\* C6: when halt is false and the user sets from_date to a date D while
\* to_date holds any other value (unset included), the row ends with
\* to_date = D.
C6_AutoFill ==
    [][\A r \in Rows :
          (/\ edit'.field = "from_date" /\ edit'.row = r
           /\ edit'.value \in Dates
           /\ ~items[r].halt
           /\ items[r].to_date # edit'.value)
          => items'[r].to_date = edit'.value]_vars

C6_Witness ==
    \E r \in Rows :
        /\ edit.row = r /\ edit.field = "from_date" /\ edit.value \in Dates
        /\ ~items[r].halt
        /\ writes = 1
        /\ items[r].to_date = edit.value

\* C7: when halt is true, a change of from_date leaves to_date as it was and
\* raises no diagnostic.
C7_HaltSuppressesAutoFill ==
    [][\A r \in Rows :
          (edit'.field = "from_date" /\ edit'.row = r /\ items[r].halt)
          => (items'[r].to_date = items[r].to_date /\ msgs' = 0)]_vars

C7_Witness ==
    \E r \in Rows :
        /\ edit.row = r /\ edit.field = "from_date"
        /\ items[r].halt
        /\ items[r].from_date \in Dates /\ items[r].to_date \in Dates
        /\ items[r].to_date < items[r].from_date
        /\ msgs = 0

\* C4: after k consecutive firings of calculate on a row with numeric
\* mileage_rate r and distance d, starting from amount a0, the row has
\* mileage_amount = r * d and amount = a0 + k * r * d.
C4_CumulativeAmount ==
    \A r \in ClaimRows :
        (/\ streak.row = r /\ streak.k > 0
         /\ claim_items[r].mileage_rate # Null
         /\ claim_items[r].distance # Null)
        => /\ claim_items[r].mileage_amount =
                claim_items[r].mileage_rate * claim_items[r].distance
           /\ claim_items[r].amount =
                streak.a0 + streak.k * claim_items[r].mileage_rate * claim_items[r].distance

C4_Witness ==
    \E r \in ClaimRows :
        /\ streak = [row |-> r, k |-> 2, a0 |-> 0]
        /\ claim_items[r].mileage_rate = 2
        /\ claim_items[r].distance = 3
        /\ claim_items[r].mileage_amount = 6
        /\ claim_items[r].amount = 12

\* C2: once the currency handler has run, a document whose currency equals
\* the resolved company currency has exchange_rate 1.0 and a hidden
\* exchange_rate field, whatever the order of edits and responses.
C2_CompanyCurrencyRateIsOne ==
    (rule_ran /\ doc.currency = company_currency(doc))
    => (doc.exchange_rate = One /\ df.hidden = 1)

\* C3: the response to an exchange-rate request that a later currency change
\* superseded changes neither exchange_rate nor the hidden flag nor the
\* description of the exchange_rate field.
C3_StaleResponseIgnored ==
    [][(last'.op = "rate_response" /\ ~last'.latest)
       => (doc'.exchange_rate = doc.exchange_rate /\ df' = df)]_vars

\* C8: after the salary-structure response is delivered, currency is the
\* returned code, or, when none was returned, the default currency of the
\* document's company or of the default company when company is unset.
C8_CurrencyFromSalaryStructure ==
    last.op = "salary_response"
    => doc.currency = (IF last.code # "" THEN last.code ELSE company_currency(doc))

\* C9: once the response with rate R to the request (from, to) is applied,
\* exchange_rate is R, the field is shown and its description is
\* "1 from = [?] to" with the currencies of that request.
C9_RateAndDescription ==
    (last.op = "rate_response" /\ last.msg # Null)
    => /\ doc.exchange_rate = last.msg
       /\ df.hidden = 0
       /\ df.description = rate_description(last.from, last.to)

\* C10: a create action is on the form only if the has_travel_claim lookup
\* it was added on reported no travel claim, the document is submitted
\* (docstatus 1) and the user may create that doctype; a document is created
\* from the form only under the same conditions.
C10_CreateOnlyWhenSubmittedWithoutClaim ==
    /\ \A b \in buttons :
          ~b.has_travel_claim /\ docstatus = 1 /\ can_create[b.doctype]
    /\ \A d \in created :
          ~d.has_travel_claim /\ d.docstatus = 1 /\ can_create[d.doctype]

C10_Witness ==
    /\ docstatus = 1
    /\ \E b \in buttons : b.doctype = "Travel Adjustment"
    /\ \E d \in created : d.doctype = "Travel Claim"
    /\ \E k \in DerivedTypes : ~can_create[k] /\ \A b \in buttons : b.doctype # k

\* Responses answering the latest request carry the currencies the document
\* still holds.
LatestResponseMatches ==
    (last.op = "rate_response" /\ last.latest)
    => /\ doc.exchange_rate = flt(last.msg)
       /\ df = [hidden |-> 0, description |-> rate_description(last.from, last.to)]
       /\ doc.currency = last.from

\* ---------------------------------------------------------------------
\* Rule registries: for every handler registered with frappe.ui.form.on,
\* the handlers it starts itself (frm.trigger, frm.events) and the fields
\* it (or the callback it installs) stores with set_value.

ClaimRules ==
    [employee              |-> [triggers |-> {"get_employee_currency"}, stores |-> {}],
     get_employee_currency |-> [triggers |-> {}, stores |-> {"currency"}],
     currency              |-> [triggers |-> {"set_exchange_rate"}, stores |-> {"exchange_rate"}],
     set_exchange_rate     |-> [triggers |-> {}, stores |-> {"exchange_rate"}],
     mileage_rate          |-> [triggers |-> {"calculate"}, stores |-> {}],
     distance              |-> [triggers |-> {"calculate"}, stores |-> {}],
     calculate             |-> [triggers |-> {}, stores |-> {"mileage_amount", "amount"}]]

AuthorizationRules ==
    [employee              |-> [triggers |-> {"get_employee_currency", "set_reports_to", "set_approver"},
                                stores |-> {}],
     get_employee_currency |-> [triggers |-> {}, stores |-> {"currency"}],
     currency              |-> [triggers |-> {"set_exchange_rate"}, stores |-> {"exchange_rate"}],
     set_exchange_rate     |-> [triggers |-> {}, stores |-> {"exchange_rate"}],
     set_reports_to        |-> [triggers |-> {}, stores |-> {"reports_to"}],
     set_approver          |-> [triggers |-> {}, stores |-> {"approver"}],
     from_date             |-> [triggers |-> {}, stores |-> {"to_date"}],
     to_date               |-> [triggers |-> {}, stores |-> {"to_date"}]]

AdjustmentRules ==
    [from_date |-> [triggers |-> {}, stores |-> {"to_date"}],
     to_date   |-> [triggers |-> {}, stores |-> {"to_date"}]]

\* The handlers a run of handler h can start: those it triggers and those
\* registered on a field it stores.
Dispatches(rules, h) ==
    rules[h].triggers \cup (rules[h].stores \cap DOMAIN rules)

RECURSIVE Reachable(_, _)
Reachable(rules, S) ==
    LET T == S \cup UNION {Dispatches(rules, h) : h \in S}
    IN IF T = S THEN S ELSE Reachable(rules, T)

\* The only handler that can reach itself is to_date, through its own store.
OnlyToDateLoops(rules) ==
    /\ \A h \in DOMAIN rules \ {"to_date"} :
           h \notin Reachable(rules, Dispatches(rules, h))
    /\ "to_date" \in DOMAIN rules => Dispatches(rules, "to_date") = {"to_date"}

\* C11: every cascade started by one edit or one response ends after a
\* bounded number of nested runs: a date edit makes the rules store to_date
\* at most once, so the to_date rule is re-entered at most once and that
\* nested run stores nothing and reports nothing; the stores of calculate
\* start no rule; and in the registries no handler other than to_date can
\* reach itself, so employee -> currency -> exchange_rate has no cycle.
C11_CascadeTerminates ==
    /\ writes <= 1
    /\ msgs <= 1
    /\ Dispatches(ClaimRules, "calculate") = {}
    /\ OnlyToDateLoops(ClaimRules)
    /\ OnlyToDateLoops(AuthorizationRules)
    /\ OnlyToDateLoops(AdjustmentRules)

\* A to_date edit on a halted row that was clamped: the rule stored once
\* and its nested run stopped.
C11_Witness ==
    \E r \in Rows :
        /\ edit.field = "to_date" /\ edit.row = r
        /\ items[r].halt
        /\ writes = 1
        /\ items[r].to_date = items[r].from_date
        /\ items[r].to_date # edit.value

\* ---------------------------------------------------------------------
\* A Travel Claim session works either in the item grid or on the parent
\* fields; the two sets of handlers share no field, so the sessions are
\* explored side by side.
ArithmeticInit ==
    \/ MileageInit
    \/ CurrencyInit

ArithmeticNext ==
    \/ cdt = "none" /\ doctype = "none" /\ MileageNext
    \/ doctype \in ParentTypes /\ CurrencyNext

ArithmeticSpec == ArithmeticInit /\ [][ArithmeticNext]_vars

\* C12: a missing or non-numeric operand counts as zero and no diagnostic is
\* raised: a rate response without a usable rate leaves exchange_rate = 0,
\* and a row whose mileage_rate or distance is missing has
\* mileage_amount = 0 while amount keeps the (coerced) value it had before
\* the edit.
C12_MissingCountsAsZero ==
    /\ msgs = 0
    /\ (last.op = "rate_response" /\ last.msg = Null) => doc.exchange_rate = 0
    /\ \A r \in ClaimRows :
           ( /\ streak.row = r /\ streak.k >= 1
             /\ Null \in {claim_items[r].mileage_rate, claim_items[r].distance} )
           => /\ claim_items[r].mileage_amount = 0
              /\ claim_items[r].amount = streak.a0

\* A rate response without a rate has been applied.
C12_Witness ==
    /\ last.op = "rate_response" /\ last.msg = Null
    /\ doc.exchange_rate = 0
    /\ doc.currency # ""

\* A row with an amount of its own got a distance but has no mileage_rate.
C12_MileageWitness ==
    \E r \in ClaimRows :
        /\ streak.row = r /\ streak.k >= 1
        /\ claim_items[r].mileage_rate = Null
        /\ claim_items[r].distance = 3
        /\ claim_items[r].mileage_amount = 0
        /\ claim_items[r].amount = 1

\* The currency the salary-currency callback stores for employee e on
\* document d: the salary-structure currency, else erpnext.get_currency of
\* the document's company.
resolved_currency(d, e) ==
    IF SalaryStructureCurrency[e] # ""
    THEN SalaryStructureCurrency[e]
    ELSE get_currency(d.company)

\* C13: when the last thing that happened is the delivery of a salary-currency
\* response and no salary-currency lookup is in flight any more, the
\* document's currency is the one resolved for the employee now on the
\* document, whatever the order in which the responses arrived.
C13_LatestEmployeeDecides ==
    ( /\ salary_calls = << >>
      /\ last.op = "salary_response"
      /\ doc.employee # "" )
    => doc.currency = resolved_currency(doc, doc.employee)

\* C14: the currency rule is reached from the employee change only through
\* the store of currency made when the salary-currency response arrives.
\* The employee change itself leaves currency, exchange_rate, the field
\* properties and the rate requests alone; a response whose value equals
\* the currency already held changes none of them; a response with a new
\* value stores it and the rule acts on that stored value: a request from
\* the new currency to the company currency leaves, or, when the two are
\* equal, the rate is set to 1 and the field hidden.
C14_CurrencyRuleOnlyThroughUpdate ==
    [][ /\ last'.op = "employee"
           => /\ doc'.currency = doc.currency
              /\ doc'.exchange_rate = doc.exchange_rate
              /\ df' = df
              /\ rate_calls' = rate_calls
        /\ last'.op = "salary_response"
           => LET written == IF last'.code # "" THEN last'.code
                             ELSE get_currency(doc.company)
                  cc == company_currency(doc)
              IN IF written = doc.currency
                 THEN /\ doc' = doc
                      /\ df' = df
                      /\ rate_calls' = rate_calls
                 ELSE /\ doc'.currency = written
                      /\ IF written # cc
                         THEN /\ Len(rate_calls') = Len(rate_calls) + 1
                              /\ rate_calls'[Len(rate_calls')] =
                                     [from |-> written, to |-> cc, latest |-> TRUE]
                              /\ doc'.exchange_rate = doc.exchange_rate
                              /\ df' = df
                         ELSE /\ doc'.exchange_rate = One
                              /\ df' = [hidden |-> 1, description |-> ""]
      ]_vars

\* A salary-currency response repeated the foreign currency the document
\* already held: no rate request left.
C14_Witness ==
    /\ last.op = "salary_response"
    /\ last.code = doc.currency
    /\ doc.currency # company_currency(doc)
    /\ rate_calls = << >>
    /\ df.hidden = 0 /\ df.description # ""

\* ---------------------------------------------------------------------
\* Item grids that hold, below the rows being edited, one row saved
\* earlier which the session leaves alone.
GridRows == 1..(NumRows + 1)

ClaimGridRows == 1..(NumClaimRows + 1)

SavedRow == [from_date |-> 1, to_date |-> MaxDate, halt |-> TRUE]

SavedClaimRow == [mileage_rate |-> 2, distance |-> 3, mileage_amount |-> 6, amount |-> 6]

\* Either the item grid of a Travel Authorization or Travel Adjustment is
\* open (cdt names its child doctype) or the item grid of a Travel Claim.
ItemInit ==
    /\ cdt \in ChildTypes \cup {"none"}
    /\ items = [r \in GridRows |-> IF r \in Rows THEN NewRow ELSE SavedRow]
    /\ msgs = 0
    /\ writes = 0
    /\ edit = NoEdit
    /\ claim_items = [r \in ClaimGridRows |-> IF r \in ClaimRows THEN NewClaimRow ELSE SavedClaimRow]
    /\ streak = NoStreak
    /\ doctype = "none"
    /\ doc = NewDoc("")
    /\ sys_currency = "INR"
    /\ df = NewDf
    /\ salary_calls = <<>>
    /\ rate_calls = <<>>
    /\ reports_to_calls = {}
    /\ approver_calls = {}
    /\ rule_ran = FALSE
    /\ last = NoEvent
    /\ docstatus = 0
    /\ can_create = [k \in DerivedTypes |-> FALSE]
    /\ claim_exists = FALSE
    /\ has_claim_calls = <<>>
    /\ buttons = {}
    /\ created = {}

ItemNext ==
    \/ cdt \in ChildTypes /\ DateNext
    \/ cdt = "none" /\ MileageNext

ItemSpec == ItemInit /\ [][ItemNext]_vars

\* Every row of both grids except row r, and the parent document, are as
\* they were.
RestUnchanged(r, grid) ==
    /\ \A q \in GridRows \ {r} : grid = "items" => items'[q] = items[q]
    /\ \A q \in ClaimGridRows \ {r} : grid = "claim_items" => claim_items'[q] = claim_items[q]
    /\ grid = "items" => claim_items' = claim_items
    /\ grid = "claim_items" => items' = items
    /\ doc' = doc
    /\ df' = df

\* C15: the rules store nothing outside their targets. After an edit of
\* from_date or to_date of row r, from_date of that row is what the user
\* entered (or what it was), halt is what it was, and every other row and
\* the parent document are untouched; after an edit of mileage_rate or
\* distance of claim row r, or a further run of calculate on it, the other
\* of the two inputs (or both) is what it was, and every other row and the
\* parent document are untouched.
C15_RulesWriteOnlyTheirTargets ==
    [][ /\ \A r \in Rows :
               (edit'.row = r /\ edit'.field \in {"from_date", "to_date"})
               => /\ items'[r].halt = items[r].halt
                  /\ items'[r].from_date = IF edit'.field = "from_date"
                                           THEN edit'.value
                                           ELSE items[r].from_date
                  /\ RestUnchanged(r, "items")
        /\ \A r \in ClaimRows :
               /\ \A v \in MileageRates :
                      EditMileageRate(r, v)
                      => /\ claim_items'[r].mileage_rate = v
                         /\ claim_items'[r].distance = claim_items[r].distance
                         /\ RestUnchanged(r, "claim_items")
               /\ \A v \in Distances :
                      EditDistance(r, v)
                      => /\ claim_items'[r].distance = v
                         /\ claim_items'[r].mileage_rate = claim_items[r].mileage_rate
                         /\ RestUnchanged(r, "claim_items")
               /\ FireCalculate(r)
                  => /\ claim_items'[r].distance = claim_items[r].distance
                     /\ claim_items'[r].mileage_rate = claim_items[r].mileage_rate
                     /\ RestUnchanged(r, "claim_items")
      ]_vars

\* A to_date entered before from_date was clamped on a Travel Adjustment
\* row while the saved row below it kept its content.
C15_Witness ==
    \E r \in Rows :
        /\ cdt = "Travel Adjustment Item"
        /\ edit.field = "to_date" /\ edit.row = r
        /\ writes = 1
        /\ items[r].from_date = MaxDate
        /\ items[r].to_date = MaxDate
        /\ items[NumRows + 1] = SavedRow

\* C16: on a Travel Authorization with an employee, once no reports-to and
\* no approver lookup is in flight, reports_to and approver are the values
\* the lookups give for that employee (empty when they give none), never
\* those of an employee selected before.
C16_HierarchyOfCurrentEmployee ==
    ( /\ doctype = "Travel Authorization"
      /\ doc.employee # ""
      /\ reports_to_calls = {}
      /\ approver_calls = {} )
    => /\ doc.reports_to = ReportsTo[doc.employee]
       /\ doc.approver = Approver[doc.employee]

\* The outcome of a handler run that the two variants are compared on.
Outcome(c) == [to_date |-> c.row.to_date, diagnostic |-> c.msgs > 0]

\* C17: on every row state and for every value the user can enter in
\* from_date or in to_date, the Travel Authorization Item handler and the
\* Travel Adjustment Item handler leave the same to_date and agree on
\* whether a diagnostic was raised.
C17_VariantsAgree ==
    \A r \in Rows, v \in DateValues :
        LET f == [row |-> [items[r] EXCEPT !.from_date = v], msgs |-> 0, writes |-> 0]
            g == [row |-> [items[r] EXCEPT !.to_date = v], msgs |-> 0, writes |-> 0]
        IN /\ Outcome(authorization_from_date("Travel Authorization Item", f))
              = Outcome(adjustment_from_date("Travel Adjustment Item", f))
           /\ Outcome(authorization_to_date("Travel Authorization Item", g))
              = Outcome(adjustment_to_date("Travel Adjustment Item", g))

\* from_date was emptied on a Travel Adjustment row that is not on halt and
\* has a to_date: the case where the two from_date tests are ordered
\* differently.
C17_Witness ==
    \E r \in Rows :
        /\ cdt = "Travel Adjustment Item"
        /\ edit.field = "from_date" /\ edit.row = r /\ edit.value = Empty
        /\ ~items[r].halt
        /\ items[r].to_date \in Dates
        /\ writes = 0

====
